---------------------------- MODULE Spec2Model ----------------------------
(***************************************************************************)
(* Model of the survey single-page application (public/script.js): the     *)
(* step-navigation state machine, its shadow of the browser history, the   *)
(* session-storage snapshot and the popstate handler.                      *)
(*                                                                         *)
(* The browser is modelled by its session history (a list of entries, each *)
(* carrying state.page, and a cursor) and by the queue of history          *)
(* traversals that were requested but whose popstate notification has not  *)
(* been delivered yet: history.back()/forward() and the user's back and    *)
(* forward presses only queue a traversal, a later task applies it.        *)
(*                                                                         *)
(* The relay server (server.js) is modelled by its /sendmessage handler,   *)
(* split at its await of the Direct Line post, its processedMessages map   *)
(* and the hourly sweep of that map.                                       *)
(*                                                                         *)
(* submitData and submitEmail (one loop, two URLs) are modelled one await  *)
(* at a time: the fetch, and the 500 ms timer after a failed attempt.      *)
(*                                                                         *)
(* The scroll restoration of showPage is modelled callback by callback     *)
(* (two animation frames, then a 50 ms timer) in a specification of its    *)
(* own, ScrollSpec, in which a change of page is the part the navigation   *)
(* handlers share: saveScrollPositions, the new currentPage, showPage.     *)
(* The specification of the navigation, Spec, takes showPage's scroll as   *)
(* one step and has no scrolling by the user.                              *)
(***************************************************************************)
EXTENDS Integers, Sequences, FiniteSets, TLC

\* ------------------------------------------------------------------------
\* Program constants and model bounds
\* ------------------------------------------------------------------------

\* The source sets totalPages = 9 and chatbotPage = 4 ("To be specified"); the
\* model checks a shorter survey of the same shape: the consent page, the
\* chatbot page, a questionnaire page and the final page.
totalPages == 4

chatbotPage == 2

\* Longest queue of history traversals not yet applied by the browser.
MaxPending == 2

\* Farthest entry the user reaches with one use of the browser's history menu.
MaxJump == 2

\* Most submissions awaiting the server's answer at once.
MaxSubmits == 2

\* Most reloads of the page in one session.
MaxReloads == 1

Pages == 1..totalPages

\* Most /sendmessage requests the server receives.
MaxRequests == 2

\* Most steps of the server's clock.
MaxTicks == 6

\* Most loads of the page with an edited sessionStorage.
MaxLoads == 2

\* Most 100 ms timers of applyChatbotViewState pending at once.
MaxViewTimers == 2

\* Largest scroll offset of the window.
MaxScrollY == 1

\* Most 50 ms timers of showPage pending at once.
MaxTimers == 2

\* Largest value of the retries argument of submitData and submitEmail; the
\* callers pass 4.
MaxRetries == 4

\* const oneHour = 60 * 60 * 1000, the retention window of processedMessages
oneHour == 3600000

\* the delay of the setInterval that sweeps processedMessages
sweepInterval == 3600000

\* The longest step of the server's clock: half the retention window.
TickLength == oneHour \div 2

\* scrollPositions[p] of a page with no saved offset (undefined in the code).
Undefined == -1

\* NaN, what parseInt gives for a string that starts with no digit
NaN == -3

\* null, what JSON.stringify writes for NaN
Null == -4

VARIABLES
    currentPage,          \* let currentPage
    historyStates,        \* let historyStates: the page of every {page: n}
    scrollPositions,      \* let scrollPositions: page -> offset or Undefined
    bypassPopState,       \* let bypassPopState
    chatbotAlreadyOpened, \* let chatbotAlreadyOpened
    consentChecked,       \* consentCheckbox.checked
    next1Disabled,        \* next1.disabled
    popstateAttached,     \* handlePopState is a listener of window 'popstate'
    sessionStorage,       \* the tab's sessionStorage, the keys the script uses
    nativeEntries,        \* the browser's session history: state.page per entry
    nativeCursor,         \* index of the current entry of the session history
    traversals,           \* queued traversals: [delta, self]
    scrollY,              \* window.scrollY
    submitsInFlight,      \* submitButtonLogic calls awaiting submitData
    reloads,              \* page reloads so far
    foldPage,             \* the step a pure fold of the button calls gives (0: not applicable)
    arrivalSignals,       \* 'userArrivedAtChatbot' events dispatched so far
    submitErrorShown,     \* the notification 'submit-error-message' is displayed
    submitted,            \* a call of submitData has returned successfully
    processedMessages,    \* const processedMessages: messageKey -> {timestamp, id}
    requests,             \* the /sendmessage requests: where each handler stands
    postCalls,            \* per messageKey: axios.post calls to Direct Line
    delivered,            \* per messageKey: messages Direct Line accepted
    now,                  \* Date.now() of the server
    nextSweep,            \* the time the sweep's interval timer is due
    poll,                 \* the /getactivities request: where its handler stands
    retryPc,              \* where the call of submitData/submitEmail stands
    retryUrl,             \* '/submit' (submitData) or '/submit-email' (submitEmail)
    retries,              \* the retries argument
    retryI,               \* let i of the for loop
    caught,               \* error of the catch clause
    lastError,            \* let lastError
    fetchCalls,           \* calls of fetch so far
    outcomes,             \* how each settled fetch ended
    returned,             \* the attempt whose response was returned (0: none)
    thrown,               \* the error the call rejected with
    caller,               \* how far the caller of submitData / submitEmail got
    scrollPos,            \* scrollPos, the global showPage assigns
    scrollFrame1,         \* the page whose first animation frame is pending (0: none)
    scrollFrame2,         \* the page whose second animation frame is pending (0: none)
    scrollTimers,         \* the pages whose 50 ms timer is pending, oldest first
    fired,                \* the top of the last window.scrollTo since showPage
    initFailed,           \* initializePage() rejected: the load stopped in restoreState
    view,                 \* the css classes applyChatbotViewState switches
    viewTimers,           \* pending 100 ms timers of applyChatbotViewState
    dialogueFinished,     \* let dialogueFinished
    bottomView            \* what the bottom of the chatbot interface shows

\* the state of the survey page (script.js)
surveyVars == <<currentPage, historyStates, scrollPositions, bypassPopState,
                chatbotAlreadyOpened, consentChecked, next1Disabled, popstateAttached,
                sessionStorage, nativeEntries, nativeCursor, traversals, scrollY,
                submitsInFlight, reloads, foldPage, arrivalSignals,
                submitErrorShown, submitted>>

\* the state of the relay server (server.js)
relayVars == <<processedMessages, requests, postCalls, delivered, now, nextSweep,
              poll>>

\* the state of one call of submitData or submitEmail (script.js)
retryVars == <<retryPc, retryUrl, retries, retryI, caught, lastError, fetchCalls,
               outcomes, returned, thrown, caller>>

\* the state of showPage's scroll restoration (script.js)
restoreVars == <<scrollPos, scrollFrame1, scrollFrame2, scrollTimers, fired>>

\* how the last run of initializePage ended (script.js)
loadVars == <<initFailed>>

\* the state of applyChatbotViewState (script.js)
viewVars == <<view, viewTimers>>

\* the state of the dialogue's end (script.js)
dialogueVars == <<dialogueFinished, bottomView>>

vars == <<surveyVars, relayVars, retryVars, restoreVars, loadVars, viewVars,
         dialogueVars>>

\* what a handler of the survey page leaves alone
notSurvey == <<relayVars, retryVars, restoreVars, loadVars, viewVars,
              dialogueVars>>

\* what a handler of the relay server leaves alone
notRelay == <<surveyVars, retryVars, restoreVars, loadVars, viewVars,
              dialogueVars>>

\* what a step of submitData or submitEmail leaves alone
notRetry == <<surveyVars, relayVars, restoreVars, loadVars, viewVars,
              dialogueVars>>

\* what saveScrollPositions, showPage and the restoration leave alone
notScroll == <<historyStates, bypassPopState, consentChecked, next1Disabled,
               popstateAttached, nativeEntries, nativeCursor, traversals,
               submitsInFlight, reloads, foldPage, submitErrorShown, submitted,
               relayVars, retryVars, loadVars>>

\* ------------------------------------------------------------------------
\* Conversions done by sessionStorage.setItem / parseInt
\* ------------------------------------------------------------------------

\* String(n) for n >= 0, as the sequence of its decimal digits.
RECURSIVE NumberToString(_)
NumberToString(n) ==
    IF n < 10 THEN <<n>> ELSE Append(NumberToString(n \div 10), n % 10)

\* The decimal digits a string starts with.
RECURSIVE DigitPrefix(_)
DigitPrefix(s) ==
    IF s = <<>> \/ Head(s) \notin 0..9 THEN <<>>
    ELSE <<Head(s)>> \o DigitPrefix(Tail(s))

\* The number a non-empty string of decimal digits denotes.
RECURSIVE DigitsValue(_)
DigitsValue(s) ==
    IF Len(s) = 1 THEN s[1]
    ELSE 10 * DigitsValue(SubSeq(s, 1, Len(s) - 1)) + s[Len(s)]

\* parseInt(s, 10): the digits s starts with, NaN when there is none.
ParseInt(s) ==
    IF DigitPrefix(s) = <<>> THEN NaN ELSE DigitsValue(DigitPrefix(s))

\* A key holding the string setItem stored for v.
Item(v) == [has |-> TRUE, val |-> v]

\* A key that was never set, or was removed: getItem returns null.
NoScrollItem == [has |-> FALSE, val |-> <<>>]

NoFormItem == [has |-> FALSE, val |-> FALSE]

\* scrollPositions[pageNumber]: a key the object does not hold reads undefined
ScrollPositionOf(sp, pageNumber) ==
    IF pageNumber \in DOMAIN sp THEN sp[pageNumber] ELSE Undefined

\* JSON.stringify(scrollPositions): the pages that have an offset, as keys
JsonStringify(sp) ==
    [p \in {q \in DOMAIN sp : sp[q] # Undefined} |-> sp[p]]

\* A stored text that is no JSON: JSON.parse throws a SyntaxError on it.
BadJson == <<-1>>

\* JSON.parse(text) throws
JsonThrows(text) == text = BadJson

\* JSON.parse(savedScrollPositions)
JsonParse(text) == [p \in Pages |-> ScrollPositionOf(text, p)]

\* ------------------------------------------------------------------------
\* Helpers of the navigation handlers
\* ------------------------------------------------------------------------

\* Variant of InHistory that looks at the newest entry only.
InHistoryLast(hs, page) == hs # <<>> /\ hs[Len(hs)] = page

\* historyStates.some(obj => obj.page === page)
InHistory(hs, page) == \E i \in DOMAIN hs : hs[i] = page

\* Variant of CanAdvance with the bound off by one.
CanAdvanceInclusive(cp) == cp <= totalPages

\* the guard of nextButtonLogic and of moveToFinalPage
CanAdvance(cp) == cp < totalPages

\* Variant of CanRetreat without the upper bound.
CanRetreatNoUpper(cp) == cp > 1

\* the guard of backButtonLogic
CanRetreat(cp) == cp > 1 /\ cp < totalPages

\* the condition of branch (c) of handlePopState
OnFinalPage(cp) == cp = totalPages

\* Variant of SaveScroll that saves the offset on the chatbot page as well.
SaveScrollAlways(sp, cp, pageNumber, y) == [sp EXCEPT ![pageNumber] = y]

\* saveScrollPositions(pageNumber): the new scrollPositions object
SaveScroll(sp, cp, pageNumber, y) ==
    IF cp # chatbotPage THEN [sp EXCEPT ![pageNumber] = y] ELSE sp

\* Variant of StoreScroll that drops the stored offsets on the chatbot page.
StoreScrollDropping(st, sp, cp, pageNumber, y) ==
    IF cp # chatbotPage
        THEN [st EXCEPT !.scrollPositions =
                            Item(JsonStringify(SaveScroll(sp, cp, pageNumber, y)))]
        ELSE [st EXCEPT !.scrollPositions = NoScrollItem]

\* saveScrollPositions(pageNumber): sessionStorage afterwards
StoreScroll(st, sp, cp, pageNumber, y) ==
    IF cp # chatbotPage
        THEN [st EXCEPT !.scrollPositions =
                            Item(JsonStringify(SaveScroll(sp, cp, pageNumber, y)))]
        ELSE st

\* Variant of SaveNavigationState that stores the page only.
SaveNavigationStatePageOnly(st, cp, hs) ==
    [st EXCEPT !.currentPage = Item(NumberToString(cp))]

\* JSON.stringify(historyStates): the page of every entry, null for NaN
HistoryJson(hs) == [i \in DOMAIN hs |-> IF hs[i] = NaN THEN Null ELSE hs[i]]

\* saveNavigationState(): sessionStorage afterwards
SaveNavigationState(st, cp, hs) ==
    [st EXCEPT !.currentPage = Item(NumberToString(cp)),
               !.historyStates = Item(HistoryJson(hs))]

\* trackChatbotArrival(), reached from showPage(pageNumber)
ArrivalFlag(opened, pageNumber) == opened \/ pageNumber = chatbotPage

\* Variant of ArrivalSignal that dispatches on every arrival.
ArrivalSignalAlways(opened, pageNumber) == IF pageNumber = chatbotPage THEN 1 ELSE 0

\* trackChatbotArrival(): the 'userArrivedAtChatbot' events it dispatches
ArrivalSignal(opened, pageNumber) ==
    IF pageNumber = chatbotPage /\ ~opened THEN 1 ELSE 0

\* String(b), as setItem stores a boolean
BoolToString(b) == IF b THEN "true" ELSE "false"

StoreArrival(st, opened, pageNumber) ==
    IF pageNumber = chatbotPage /\ ~opened
        THEN [st EXCEPT !.chatbotAlreadyOpened = BoolToString(TRUE)]
        ELSE st

\* showPage(pageNumber): window.scrollY when the call returns
ShowPageScroll(sp, pageNumber, y) ==
    IF pageNumber # chatbotPage /\ ScrollPositionOf(sp, pageNumber) = Undefined
        THEN 0 ELSE y

\* window.history.pushState(stateObj): entries after the cursor are dropped
PushState(entries, cursor, page) == Append(SubSeq(entries, 1, cursor), page)

\* window.history.replaceState(stateObj)
ReplaceState(entries, cursor, page) == [entries EXCEPT ![cursor] = page]

SelfTraversal(d) == [delta |-> d, self |-> TRUE]

UserTraversal(d) == [delta |-> d, self |-> FALSE]

\* ------------------------------------------------------------------------
\* Helpers of the scroll restoration
\* ------------------------------------------------------------------------

\* fired, when no window.scrollTo ran since showPage was called
NoScroll == -2

\* document.getElementById(`page${pageNumber}`) is not null: showPage shows the
\* final page as the element 'thankyou', every other page as `page${pageNumber}`.
PageElementExists(pageNumber) == pageNumber # totalPages

\* scrollPos = scrollPositions[pageNumber]
RestoreTarget(sp, pageNumber) == ScrollPositionOf(sp, pageNumber)

\* ------------------------------------------------------------------------
\* Helpers of applyChatbotViewState
\* ------------------------------------------------------------------------

\* (a) the survey view: #chatbot-interface carries chatbot-hidden, and body,
\* #survey-container and the chatbot page carry none of the classes the timer
\* adds. It is also the view of the markup, before any script ran.
SurveyView == [interface |-> "chatbot-hidden", locked |-> FALSE]

MarkupView == SurveyView

\* (b) the chatbot interface view, once its timer has fired
ChatbotView == [interface |-> "chatbot-visible", locked |-> TRUE]

\* the condition under which showPage calls applyChatbotViewState
InViewRange(pageNumber) ==
    pageNumber >= chatbotPage - 1 /\ pageNumber <= chatbotPage + 1

\* applyChatbotViewState(), up to the return: the classes afterwards
ApplyChatbotViewState(v, cp) ==
    IF cp = chatbotPage THEN [v EXCEPT !.interface = "chatbot-visible"]
                        ELSE SurveyView

\* showPage(pageNumber) with currentPage = pageNumber: the classes afterwards
ShowPageView(v, pageNumber) ==
    IF InViewRange(pageNumber) THEN ApplyChatbotViewState(v, pageNumber) ELSE v

\* the 100 ms timers showPage(pageNumber) starts
ViewTimersStarted(pageNumber) ==
    IF InViewRange(pageNumber) /\ pageNumber = chatbotPage THEN 1 ELSE 0

\* ------------------------------------------------------------------------
\* Helpers of the dialogue's end
\* ------------------------------------------------------------------------

\* const textareaReplacement
textareaReplacement == TRUE

\* what getItem returns for a key that was never set: null
NoValue == "null"

\* Variant of RestoredDialogue that starts every load with false.
RestoredDialogueFresh(st) == FALSE

\* let dialogueFinished = sessionStorage.getItem('dialogueFinished') === 'true'
RestoredDialogue(st) == st.dialogueFinished = "true"

\* setFinishedDialogueState(): "finished" when the finishedDialogueBtn is shown
\* in place of the message input, "input" when the input is shown
SetFinishedDialogueState(finished) ==
    IF ~textareaReplacement THEN "input"
    ELSE IF ~finished THEN "input"
    ELSE "finished"

\* ------------------------------------------------------------------------
\* Helpers of submitData and submitEmail
\* ------------------------------------------------------------------------

\* let lastError = null
NoError == [kind |-> "null", attempt |-> 0]

\* the caller of submitData / submitEmail is still at its await
NoOutcome == [shown |-> "none", finalStep |-> FALSE]

\* the try block after the await: the sending notification is hidden and the
\* page moves on (moveToFinalPage and clearState, or emailSent and
\* setThankyouPageState)
TryBranch(url) == [shown |-> "hidden", finalStep |-> TRUE]

\* Variant of CatchBranch that moves on when the value caught is null.
CatchBranchNullPasses(url, error) ==
    IF error.kind = "null" THEN TryBranch(url)
    ELSE [shown |-> "submit-error-message", finalStep |-> FALSE]

\* the catch branch: the value caught is logged, the sending notification is
\* hidden and the error notification of the form is shown
CatchBranch(url, error) ==
    [shown |-> IF url = "/submit" THEN "submit-error-message"
                                  ELSE "submit-emmail-error-message",
     finalStep |-> FALSE]

\* the ways an attempt fails: fetch rejects, or response.ok is false
FailureKinds == {"network", "status"}

\* Variant of LoopContinues with the bound off by one.
LoopContinuesInclusive(i, n) == i <= n

\* the condition of for (let i = 0; i < retries; i++)
LoopContinues(i, n) == i < n

\* Variant of KeepError that keeps the first error.
KeepFirstError(last, error) == IF last = NoError THEN error ELSE last

\* lastError = error
KeepError(last, error) == error

\* ------------------------------------------------------------------------
\* Helpers of the relay server
\* ------------------------------------------------------------------------

Requests == 1..MaxRequests

\* req.body.conversationId and req.body.clientSideMsgId, as strings of tokens
ConversationIds == {<<"c">>, <<"c", "::", "m">>}

ClientSideMsgIds == {<<"m">>, <<"m", "::", "m">>}

\* const messageKey = `${conversationId}::${clientSideMsgId}`
MessageKey(conversationId, clientSideMsgId) ==
    conversationId \o <<"::">> \o clientSideMsgId

MessageKeys == {MessageKey(c, m) : c \in ConversationIds, m \in ClientSideMsgIds}

\* a key processedMessages does not hold
NoEntry == [has |-> FALSE, timestamp |-> 0, id |-> 0]

\* a request the server has not received yet
NoRequest == [pc |-> "idle", conversationId |-> <<>>, clientSideMsgId |-> <<>>,
              key |-> <<>>, status |-> "none", id |-> 0, doneAt |-> 0]

\* req.body.watermark: none on the first poll, then the last one received
NoWatermark == 0

Watermarks == {1, 2}

\* response.data.activities of Direct Line, as the number of activities
Batches == {0, 1}

\* no /getactivities request is being handled and none was answered
NoPoll == [pc |-> "idle", sent |-> NoWatermark, status |-> 0, activities |-> 0,
           watermark |-> NoWatermark, backend |-> NoWatermark]

\* Variant of ActivitiesResponse that computes the watermark from the request.
ActivitiesResponseLocal(sent, activities, watermark) ==
    [pc |-> "done", sent |-> sent, status |-> 200, activities |-> activities,
     watermark |-> sent + activities, backend |-> watermark]

\* res.json(data): response.data of Direct Line, passed on with its watermark
\* (data.treatmentGroup, which echoes the request's value, is left out)
ActivitiesResponse(sent, activities, watermark) ==
    [pc |-> "done", sent |-> sent, status |-> 200, activities |-> activities,
     watermark |-> watermark, backend |-> watermark]

\* res.status(500).json({ error, details })
ActivitiesError(sent) ==
    [pc |-> "done", sent |-> sent, status |-> 500, activities |-> 0,
     watermark |-> NoWatermark, backend |-> NoWatermark]

\* Variant of IsDuplicate that never finds the key.
IsDuplicateNever(pm, key) == FALSE

\* processedMessages.has(messageKey)
IsDuplicate(pm, key) == pm[key].has

\* processedMessages.set(messageKey, { timestamp: Date.now(), id: response.data.id })
SetEntry(pm, key, t, id) == [pm EXCEPT ![key] = [has |-> TRUE, timestamp |-> t, id |-> id]]

\* Variant of EntryAfterFailure that records the failed key.
EntryAfterFailureRecorded(pm, key, t) == SetEntry(pm, key, t, 0)

\* the catch branch of /sendmessage: processedMessages afterwards
EntryAfterFailure(pm, key, t) == pm

\* the id Direct Line gives the next activity it accepts
NextActivityId(d) ==
    LET RECURSIVE Sum(_)
        Sum(K) == IF K = {} THEN 0
                  ELSE LET k == CHOOSE x \in K : TRUE IN d[k] + Sum(K \ {k})
    IN  Sum(MessageKeys) + 1

\* Variant of Expired that keeps an entry for two hours.
ExpiredLate(entry, t) == entry.has /\ t - entry.timestamp > oneHour + oneHour

\* Variant of Expired that takes an entry of exactly one hour as expired.
ExpiredInclusive(entry, t) == entry.has /\ t - entry.timestamp >= oneHour

\* the condition of the sweep's delete
Expired(entry, t) == entry.has /\ t - entry.timestamp > oneHour

\* ------------------------------------------------------------------------
\* Initial state: the first load of the page in a fresh tab, the server
\* just started
\* ------------------------------------------------------------------------

Init ==
    /\ currentPage = 1
    /\ historyStates = <<1>>
    /\ scrollPositions = [p \in Pages |-> Undefined]
    /\ bypassPopState = FALSE
    /\ chatbotAlreadyOpened = FALSE
    /\ consentChecked = FALSE
    /\ next1Disabled = TRUE
    /\ popstateAttached = TRUE
    /\ sessionStorage = [currentPage |-> Item(NumberToString(1)),
                         historyStates |-> Item(<<1>>),
                         scrollPositions |-> NoScrollItem,
                         formData |-> NoFormItem,
                         chatbotAlreadyOpened |-> BoolToString(FALSE),
                         dialogueFinished |-> NoValue,
                         participantId |-> TRUE]
    /\ nativeEntries = <<1>>
    /\ nativeCursor = 1
    /\ traversals = <<>>
    /\ scrollY = 0
    /\ submitsInFlight = 0
    /\ reloads = 0
    /\ foldPage = 1
    /\ arrivalSignals = 0
    /\ submitErrorShown = FALSE
    /\ submitted = FALSE
    /\ processedMessages = [k \in MessageKeys |-> NoEntry]
    /\ requests = [r \in Requests |-> NoRequest]
    /\ postCalls = [k \in MessageKeys |-> 0]
    /\ delivered = [k \in MessageKeys |-> 0]
    /\ now = 0
    /\ nextSweep = sweepInterval
    /\ poll = NoPoll
    /\ retryPc = "idle"
    /\ retryUrl = "/submit"
    /\ retries = 0
    /\ retryI = 0
    /\ caught = NoError
    /\ lastError = NoError
    /\ fetchCalls = 0
    /\ outcomes = <<>>
    /\ returned = 0
    /\ thrown = NoError
    /\ caller = NoOutcome
    /\ scrollPos = Undefined
    /\ scrollFrame1 = 0
    /\ scrollFrame2 = 0
    /\ scrollTimers = <<>>
    /\ fired = 0
    /\ initFailed = FALSE
    /\ view = ShowPageView(MarkupView, 1)
    /\ viewTimers = 0
    /\ dialogueFinished = FALSE
    /\ bottomView = SetFinishedDialogueState(FALSE)

\* ------------------------------------------------------------------------
\* Button handlers
\* ------------------------------------------------------------------------

\* nextButtonLogic(), also reached through continueSurveyLogic(). On page 1 the
\* button is next1, which consentCheckboxLogic keeps disabled without consent.
nextButtonLogic ==
    LET moved == CanAdvance(currentPage)
        cp == IF moved THEN currentPage + 1 ELSE currentPage
        sp == IF moved THEN SaveScroll(scrollPositions, currentPage, currentPage, scrollY)
                       ELSE scrollPositions
        st1 == IF moved
                  THEN SaveNavigationState(
                           StoreArrival(
                               StoreScroll(sessionStorage, scrollPositions, currentPage,
                                           currentPage, scrollY),
                               chatbotAlreadyOpened, cp),
                           cp, historyStates)
                  ELSE sessionStorage
        known == InHistory(historyStates, cp)
    IN  /\ currentPage = 1 => ~next1Disabled
        /\ known => Len(traversals) < MaxPending
        /\ currentPage' = cp
        /\ scrollPositions' = sp
        /\ scrollY' = IF moved THEN ShowPageScroll(sp, cp, scrollY) ELSE scrollY
        /\ chatbotAlreadyOpened' = IF moved THEN ArrivalFlag(chatbotAlreadyOpened, cp)
                                             ELSE chatbotAlreadyOpened
        /\ IF known
              THEN /\ bypassPopState' = TRUE
                   /\ traversals' = Append(traversals, SelfTraversal(1))
                   /\ sessionStorage' = st1
                   /\ UNCHANGED <<historyStates, nativeEntries, nativeCursor>>
              ELSE /\ historyStates' = Append(historyStates, cp)
                   /\ nativeEntries' = PushState(nativeEntries, nativeCursor, cp)
                   /\ nativeCursor' = nativeCursor + 1
                   /\ sessionStorage' = SaveNavigationState(st1, cp, Append(historyStates, cp))
                   /\ UNCHANGED <<bypassPopState, traversals>>
        /\ foldPage' = IF foldPage # 0 /\ foldPage < totalPages THEN foldPage + 1 ELSE 0
        /\ arrivalSignals' = IF moved
                                 THEN arrivalSignals + ArrivalSignal(chatbotAlreadyOpened, cp)
                                 ELSE arrivalSignals
        /\ UNCHANGED <<consentChecked, next1Disabled, popstateAttached, submitsInFlight,
                       reloads, submitErrorShown, submitted,
                   notSurvey>>

\* backButtonLogic(), also reached through closeChatbotLogic()
backButtonLogic ==
    IF CanRetreat(currentPage)
      THEN LET cp == currentPage - 1
               sp == SaveScroll(scrollPositions, currentPage, currentPage, scrollY)
           IN  /\ Len(traversals) < MaxPending
               /\ currentPage' = cp
               /\ scrollPositions' = sp
               /\ scrollY' = ShowPageScroll(sp, cp, scrollY)
               /\ chatbotAlreadyOpened' = ArrivalFlag(chatbotAlreadyOpened, cp)
               /\ sessionStorage' =
                      SaveNavigationState(
                          StoreArrival(
                              StoreScroll(sessionStorage, scrollPositions, currentPage,
                                          currentPage, scrollY),
                              chatbotAlreadyOpened, cp),
                          cp, historyStates)
               /\ bypassPopState' = TRUE
               /\ traversals' = Append(traversals, SelfTraversal(-1))
               /\ foldPage' = IF foldPage > 1 /\ foldPage < totalPages THEN foldPage - 1 ELSE 0
               /\ arrivalSignals' = arrivalSignals + ArrivalSignal(chatbotAlreadyOpened, cp)
               /\ UNCHANGED <<historyStates, consentChecked, next1Disabled, popstateAttached,
                              nativeEntries, nativeCursor, submitsInFlight,
                              reloads, submitErrorShown, submitted,
                   notSurvey>>
      ELSE /\ foldPage' = 0
           /\ UNCHANGED <<currentPage, historyStates, scrollPositions, bypassPopState,
                          chatbotAlreadyOpened, consentChecked, next1Disabled,
                          popstateAttached, sessionStorage, nativeEntries, nativeCursor,
                          traversals, scrollY, submitsInFlight,
                          reloads, arrivalSignals, submitErrorShown, submitted,
                   notSurvey>>

\* consentCheckboxLogic() and inputFieldLogic(), both listeners of the checkbox
consentCheckboxLogic ==
    /\ consentChecked' = ~consentChecked
    /\ next1Disabled' = consentChecked
    /\ sessionStorage' = [sessionStorage EXCEPT !.formData = Item(~consentChecked)]
    /\ UNCHANGED <<currentPage, historyStates, scrollPositions, bypassPopState,
                   chatbotAlreadyOpened, popstateAttached, nativeEntries, nativeCursor,
                   traversals, scrollY, submitsInFlight, foldPage,
                   reloads, arrivalSignals, submitErrorShown, submitted,
                   notSurvey>>

\* ------------------------------------------------------------------------
\* Submission
\* ------------------------------------------------------------------------

\* submitButtonLogic() up to its await of submitData(data, 4). Its smooth
\* scroll to the bottom of the page is not modelled.
submitButtonLogic ==
    /\ submitsInFlight < MaxSubmits
    /\ submitsInFlight' = submitsInFlight + 1
    /\ submitErrorShown' = FALSE
    /\ UNCHANGED <<currentPage, historyStates, scrollPositions, bypassPopState,
                   chatbotAlreadyOpened, consentChecked, next1Disabled, popstateAttached,
                   sessionStorage, nativeEntries, nativeCursor, traversals, scrollY,
                   foldPage,
                   reloads, arrivalSignals, submitted,
                   notSurvey>>

\* clearState(): sessionStorage afterwards
ClearState(st) == [st EXCEPT !.participantId = FALSE, !.formData = NoFormItem]

\* submitData resolved: moveToFinalPage() and then clearState()
moveToFinalPage ==
    LET moved == CanAdvance(currentPage)
        cp == IF moved THEN totalPages ELSE currentPage
        sp == IF moved THEN SaveScroll(scrollPositions, currentPage, currentPage, scrollY)
                       ELSE scrollPositions
        st1 == IF moved
                  THEN SaveNavigationState(
                           StoreArrival(
                               StoreScroll(sessionStorage, scrollPositions, currentPage,
                                           currentPage, scrollY),
                               chatbotAlreadyOpened, cp),
                           cp, historyStates)
                  ELSE sessionStorage
        known == InHistory(historyStates, cp)
    IN  /\ submitsInFlight > 0
        /\ known => Len(traversals) < MaxPending
        /\ submitsInFlight' = submitsInFlight - 1
        /\ currentPage' = cp
        /\ scrollPositions' = sp
        /\ scrollY' = IF moved THEN ShowPageScroll(sp, cp, scrollY) ELSE scrollY
        /\ chatbotAlreadyOpened' = IF moved THEN ArrivalFlag(chatbotAlreadyOpened, cp)
                                             ELSE chatbotAlreadyOpened
        /\ IF known
              THEN /\ bypassPopState' = TRUE
                   /\ traversals' = Append(traversals, SelfTraversal(1))
                   /\ sessionStorage' = ClearState(st1)
                   /\ UNCHANGED <<historyStates, nativeEntries, nativeCursor>>
              ELSE /\ historyStates' = Append(historyStates, cp)
                   /\ nativeEntries' = PushState(nativeEntries, nativeCursor, cp)
                   /\ nativeCursor' = nativeCursor + 1
                   /\ sessionStorage' =
                          ClearState(SaveNavigationState(st1, cp, Append(historyStates, cp)))
                   /\ UNCHANGED <<bypassPopState, traversals>>
        /\ foldPage' = 0
        /\ submitted' = TRUE
        /\ arrivalSignals' = IF moved
                                 THEN arrivalSignals + ArrivalSignal(chatbotAlreadyOpened, cp)
                                 ELSE arrivalSignals
        /\ UNCHANGED <<consentChecked, next1Disabled, popstateAttached,
                       reloads, submitErrorShown, notSurvey>>

\* Variant of submitFailed that goes on as after a successful submission.
submitFailedGoesOn == moveToFinalPage

\* submitData rejected after its last attempt: the catch branch of submitButtonLogic
submitFailed ==
    /\ submitsInFlight > 0
    /\ submitsInFlight' = submitsInFlight - 1
    /\ submitErrorShown' = TRUE
    /\ UNCHANGED <<currentPage, historyStates, scrollPositions, bypassPopState,
                   chatbotAlreadyOpened, consentChecked, next1Disabled, popstateAttached,
                   sessionStorage, nativeEntries, nativeCursor, traversals, scrollY,
                   foldPage,
                   reloads, arrivalSignals, submitted,
                   notSurvey>>

\* ------------------------------------------------------------------------
\* The browser: the user's back/forward presses and the delivery of traversals
\* ------------------------------------------------------------------------

\* The user presses back or forward, or picks an entry of the history menu.
UserNavigates ==
    /\ Len(traversals) < MaxPending
    /\ \E d \in (-MaxJump..MaxJump) \ {0} :
           traversals' = Append(traversals, UserTraversal(d))
    /\ foldPage' = 0
    /\ UNCHANGED <<currentPage, historyStates, scrollPositions, bypassPopState,
                   chatbotAlreadyOpened, consentChecked, next1Disabled, popstateAttached,
                   sessionStorage, nativeEntries, nativeCursor, scrollY, submitsInFlight,
                   reloads, arrivalSignals, submitErrorShown, submitted,
                   notSurvey>>

\* The entry the oldest queued traversal leads to (0 or beyond the end: none).
Target == nativeCursor + Head(traversals).delta

HasTarget == traversals # <<>> /\ Target \in 1..Len(nativeEntries)

\* A popstate event is dispatched to handlePopState.
PopStateFires == HasTarget /\ popstateAttached

\* event.state.page of that event
EventPage == nativeEntries[Target]

\* The traversal has no entry to move to: nothing happens, no event fires.
TraversalDropped ==
    /\ traversals # <<>>
    /\ ~HasTarget
    /\ traversals' = Tail(traversals)
    /\ UNCHANGED <<currentPage, historyStates, scrollPositions, bypassPopState,
                   chatbotAlreadyOpened, consentChecked, next1Disabled, popstateAttached,
                   sessionStorage, nativeEntries, nativeCursor, scrollY, submitsInFlight,
                   foldPage,
                   reloads, arrivalSignals, submitErrorShown, submitted,
                   notSurvey>>

\* The traversal is applied after handlePopState was removed as listener.
TraversalUnheard ==
    /\ HasTarget
    /\ ~popstateAttached
    /\ nativeCursor' = Target
    /\ traversals' = Tail(traversals)
    /\ UNCHANGED <<currentPage, historyStates, scrollPositions, bypassPopState,
                   chatbotAlreadyOpened, consentChecked, next1Disabled, popstateAttached,
                   sessionStorage, nativeEntries, scrollY, submitsInFlight, foldPage,
                   reloads, arrivalSignals, submitErrorShown, submitted,
                   notSurvey>>

\* handlePopState(event), branch (d): the suppression flag is set
PopStateSuppressed ==
    /\ PopStateFires
    /\ bypassPopState
    /\ nativeCursor' = Target
    /\ traversals' = Tail(traversals)
    /\ bypassPopState' = FALSE
    /\ UNCHANGED <<currentPage, historyStates, scrollPositions, chatbotAlreadyOpened,
                   consentChecked, next1Disabled, popstateAttached, sessionStorage,
                   nativeEntries, scrollY, submitsInFlight, foldPage,
                   reloads, arrivalSignals, submitErrorShown, submitted,
                   notSurvey>>

\* the condition of branch (b) of handlePopState
ConsentBlocks(cp, eventPage, consent) == cp = 1 /\ eventPage = 2 /\ ~consent

\* handlePopState(event), branch (b): page 1 without consent
PopStateConsentBlocked ==
    /\ PopStateFires
    /\ ~bypassPopState
    /\ ConsentBlocks(currentPage, EventPage, consentChecked)
    /\ nativeCursor' = Target
    /\ bypassPopState' = TRUE
    /\ traversals' = Append(Tail(traversals), SelfTraversal(-1))
    /\ UNCHANGED <<currentPage, historyStates, scrollPositions, chatbotAlreadyOpened,
                   consentChecked, next1Disabled, popstateAttached, sessionStorage,
                   nativeEntries, scrollY, submitsInFlight, foldPage,
                   reloads, arrivalSignals, submitErrorShown, submitted,
                   notSurvey>>

\* handlePopState(event), branch (c): the final page
PopStateOnFinalPage ==
    /\ PopStateFires
    /\ ~bypassPopState
    /\ ~ConsentBlocks(currentPage, EventPage, consentChecked)
    /\ OnFinalPage(currentPage)
    /\ nativeCursor' = Target
    /\ popstateAttached' = FALSE
    /\ traversals' = Append(Tail(traversals), SelfTraversal(-1))
    /\ UNCHANGED <<currentPage, historyStates, scrollPositions, bypassPopState,
                   chatbotAlreadyOpened, consentChecked, next1Disabled, sessionStorage,
                   nativeEntries, scrollY, submitsInFlight, foldPage,
                   reloads, arrivalSignals, submitErrorShown, submitted,
                   notSurvey>>

\* Variant of PopStateStep whose forward move skips a page where it can.
PopStateStepSkipping(cp, eventPage) ==
    IF eventPage < cp THEN cp - 1 ELSE IF cp + 2 <= totalPages THEN cp + 2 ELSE cp + 1

\* Variant of PopStateStep that moves to the page of the entry.
PopStateStepToEntry(cp, eventPage) == eventPage

\* the page handlePopState moves to in its default branch
PopStateStep(cp, eventPage) == IF eventPage < cp THEN cp - 1 ELSE cp + 1

\* handlePopState(event), branch (a): the default behaviour
PopStateDefault ==
    /\ PopStateFires
    /\ ~bypassPopState
    /\ ~ConsentBlocks(currentPage, EventPage, consentChecked)
    /\ ~OnFinalPage(currentPage)
    /\ LET cp == PopStateStep(currentPage, EventPage)
           sp == SaveScroll(scrollPositions, currentPage, currentPage, scrollY)
       IN  /\ nativeCursor' = Target
           /\ traversals' = Tail(traversals)
           /\ currentPage' = cp
           /\ scrollPositions' = sp
           /\ scrollY' = ShowPageScroll(sp, cp, scrollY)
           /\ chatbotAlreadyOpened' = ArrivalFlag(chatbotAlreadyOpened, cp)
           /\ arrivalSignals' = arrivalSignals + ArrivalSignal(chatbotAlreadyOpened, cp)
           /\ sessionStorage' =
                  SaveNavigationState(
                      StoreArrival(
                          StoreScroll(sessionStorage, scrollPositions, currentPage,
                                      currentPage, scrollY),
                          chatbotAlreadyOpened, cp),
                      cp, historyStates)
    /\ UNCHANGED <<historyStates, bypassPopState, consentChecked, next1Disabled,
                   popstateAttached, nativeEntries, submitsInFlight, foldPage,
                   reloads, submitErrorShown, submitted,
                   notSurvey>>

\* ------------------------------------------------------------------------
\* Page reload
\* ------------------------------------------------------------------------

\* restoreState(): the values read back from sessionStorage
\* Variant of RestoredPage that starts every load on page 1.
RestoredPageFresh(st) == 1

\* restoreState(): currentPage afterwards
RestoredPage(st) == IF st.currentPage.has THEN ParseInt(st.currentPage.val) ELSE 1

RestoredHistory(st) == IF st.historyStates.has THEN st.historyStates.val ELSE <<>>

RestoredScroll(st) ==
    IF st.scrollPositions.has THEN JsonParse(st.scrollPositions.val)
                              ELSE [p \in Pages |-> Undefined]

RestoredConsent(st) == st.formData.has /\ st.formData.val

\* initializeHistory(page): historyStates afterwards
InitializeHistory(hs, page) == IF InHistory(hs, page) THEN hs ELSE Append(hs, page)

\* The user reloads the page: the beforeunload listener, then the script starts
\* again and initializePage() runs. The reload is queued behind the traversals
\* requested before it; a submission awaiting its answer is abandoned.
Reload ==
    /\ reloads < MaxReloads
    /\ reloads' = reloads + 1
    /\ traversals = <<>>
    /\ LET unloaded == StoreScroll(sessionStorage, scrollPositions, currentPage,
                                   currentPage, scrollY)
           opened == unloaded.chatbotAlreadyOpened = "true"
           st0 == [unloaded EXCEPT !.chatbotAlreadyOpened = BoolToString(opened),
                                   !.participantId = TRUE]
           cp == RestoredPage(st0)
           hs == InitializeHistory(RestoredHistory(st0), cp)
           sp == RestoredScroll(st0)
       IN  /\ currentPage' = cp
           /\ historyStates' = hs
           /\ scrollPositions' = sp
           /\ bypassPopState' = FALSE
           /\ chatbotAlreadyOpened' = ArrivalFlag(opened, cp)
           /\ arrivalSignals' = arrivalSignals + ArrivalSignal(opened, cp)
           /\ consentChecked' = RestoredConsent(st0)
           /\ next1Disabled' = ~RestoredConsent(st0)
           /\ popstateAttached' = TRUE
           /\ sessionStorage' = StoreArrival(SaveNavigationState(st0, cp, hs), opened, cp)
           /\ nativeEntries' = ReplaceState(nativeEntries, nativeCursor, cp)
           /\ scrollY' = ShowPageScroll(sp, cp, 0)
    /\ submitsInFlight' = 0
    /\ foldPage' = 0
    /\ submitErrorShown' = FALSE
    /\ UNCHANGED <<nativeCursor, traversals, submitted,
                   notSurvey>>

\* ------------------------------------------------------------------------
\* A load that finds sessionStorage as something else left it
\* ------------------------------------------------------------------------

StoredKeys == {"currentPage", "historyStates", "scrollPositions"}

\* The values a key of sessionStorage is given from outside the script: none,
\* a text the script could have written, a text that is no number or no JSON.
StoredValues(key) ==
    CASE key = "currentPage" ->
             {NoScrollItem, Item(NumberToString(NaN))}
                 \cup {Item(NumberToString(p)) : p \in Pages}
      [] key = "historyStates" ->
             {NoScrollItem, Item(BadJson), Item(<<1>>), Item(<<1, 2>>), Item(<<1, 2, 3>>)}
      [] key = "scrollPositions" ->
             {NoScrollItem, Item(BadJson), Item(<<>>), Item(<<MaxScrollY>>)}

\* sessionStorage.setItem(key, ...) or removeItem(key) by something else than
\* the handlers of script.js: the other scripts of the page, the user.
storageEdited(key, item) ==
    /\ item # sessionStorage[key]
    /\ sessionStorage' = [sessionStorage EXCEPT ![key] = item]
    /\ UNCHANGED <<currentPage, historyStates, scrollPositions, bypassPopState,
                   chatbotAlreadyOpened, consentChecked, next1Disabled,
                   popstateAttached, nativeEntries, nativeCursor, traversals, scrollY,
                   submitsInFlight, reloads, foldPage, arrivalSignals,
                   submitErrorShown, initFailed>>
    /\ UNCHANGED <<submitted, relayVars, retryVars, restoreVars, viewVars,
                   dialogueVars>>

\* restoreState() throws: JSON.parse of historyStates or of scrollPositions
HistoryThrows(st) == st.historyStates.has /\ JsonThrows(st.historyStates.val)

ScrollThrows(st) == st.scrollPositions.has /\ JsonThrows(st.scrollPositions.val)

\* showPage(pageNumber) throws: there is no element `page${pageNumber}`
ShowPageThrows(pageNumber) == pageNumber \notin Pages

\* The document is loaded with sessionStorage as it is: the script starts with
\* currentPage = 1, historyStates = [], scrollPositions = {} and
\* initializePage() runs until it returns or throws.
startup ==
    LET opened == sessionStorage.chatbotAlreadyOpened = "true"
        st0 == [sessionStorage EXCEPT !.chatbotAlreadyOpened = BoolToString(opened),
                                      !.participantId = TRUE]
        cp == RestoredPage(st0)
        restoreThrows == HistoryThrows(st0) \/ ScrollThrows(st0)
        restoredHs == IF HistoryThrows(st0) THEN <<>> ELSE RestoredHistory(st0)
        hs == IF restoreThrows THEN restoredHs ELSE InitializeHistory(restoredHs, cp)
        sp == IF restoreThrows THEN [p \in Pages |-> Undefined] ELSE RestoredScroll(st0)
        shown == ~restoreThrows /\ ~ShowPageThrows(cp)
    IN  /\ reloads < MaxLoads
        /\ reloads' = reloads + 1
        /\ currentPage' = cp
        /\ historyStates' = hs
        /\ scrollPositions' = sp
        /\ initFailed' = ~shown
        /\ bypassPopState' = FALSE
        /\ chatbotAlreadyOpened' = IF shown THEN ArrivalFlag(opened, cp) ELSE opened
        /\ arrivalSignals' = IF shown THEN arrivalSignals + ArrivalSignal(opened, cp)
                                      ELSE arrivalSignals
        /\ consentChecked' = (~restoreThrows /\ RestoredConsent(st0))
        /\ next1Disabled' = ~(~restoreThrows /\ RestoredConsent(st0))
        /\ popstateAttached' = shown
        /\ sessionStorage' =
               IF restoreThrows THEN st0
               ELSE IF shown THEN StoreArrival(SaveNavigationState(st0, cp, hs), opened, cp)
               ELSE SaveNavigationState(st0, cp, hs)
        /\ nativeEntries' = IF restoreThrows THEN nativeEntries
                            ELSE ReplaceState(nativeEntries, nativeCursor, cp)
        /\ scrollY' = 0
        /\ submitsInFlight' = 0
        /\ foldPage' = 0
        /\ submitErrorShown' = FALSE
        /\ UNCHANGED <<nativeCursor, traversals>>
    /\ UNCHANGED <<submitted, relayVars, retryVars, restoreVars, viewVars,
                   dialogueVars>>

\* ------------------------------------------------------------------------
\* The relay server: /sendmessage and the sweep of processedMessages
\* ------------------------------------------------------------------------

\* app.post('/sendmessage') up to its return or its await of axios.post
SendMessageReceived(r, conversationId, clientSideMsgId) ==
    LET messageKey == MessageKey(conversationId, clientSideMsgId)
    IN  /\ requests[r].pc = "idle"
        /\ r > 1 => requests[r - 1].pc # "idle"
        /\ IF IsDuplicate(processedMessages, messageKey)
              THEN /\ requests' = [requests EXCEPT ![r] =
                          [pc |-> "done", conversationId |-> conversationId,
                           clientSideMsgId |-> clientSideMsgId,
                           key |-> messageKey, status |-> "duplicate",
                           id |-> processedMessages[messageKey].id, doneAt |-> now]]
                   /\ UNCHANGED postCalls
              ELSE /\ requests' = [requests EXCEPT ![r] =
                          [pc |-> "awaiting", conversationId |-> conversationId,
                           clientSideMsgId |-> clientSideMsgId,
                           key |-> messageKey, status |-> "none",
                           id |-> 0, doneAt |-> 0]]
                   /\ postCalls' = [postCalls EXCEPT ![messageKey] = @ + 1]
        /\ UNCHANGED <<processedMessages, delivered, now, nextSweep, poll, notRelay>>

\* axios.post resolved: the entry is set and response.data is sent
PostSucceeded(r) ==
    LET messageKey == requests[r].key
        id == NextActivityId(delivered)
    IN  /\ requests[r].pc = "awaiting"
        /\ delivered' = [delivered EXCEPT ![messageKey] = @ + 1]
        /\ processedMessages' = SetEntry(processedMessages, messageKey, now, id)
        /\ requests' = [requests EXCEPT ![r] =
               [requests[r] EXCEPT !.pc = "done", !.status = "ok", !.id = id,
                                   !.doneAt = now]]
        /\ UNCHANGED <<postCalls, now, nextSweep, poll, notRelay>>

\* axios.post rejected: the catch branch answers with status 500
PostFailed(r) ==
    LET messageKey == requests[r].key
    IN  /\ requests[r].pc = "awaiting"
        /\ processedMessages' = EntryAfterFailure(processedMessages, messageKey, now)
        /\ requests' = [requests EXCEPT ![r] =
               [requests[r] EXCEPT !.pc = "done", !.status = "error", !.id = 0,
                                   !.doneAt = now]]
        /\ UNCHANGED <<postCalls, delivered, now, nextSweep, poll, notRelay>>

\* the callback of setInterval(..., 3600000)
Sweep ==
    /\ now = nextSweep
    /\ processedMessages' =
           [k \in MessageKeys |->
               IF Expired(processedMessages[k], now) THEN NoEntry
                                                     ELSE processedMessages[k]]
    /\ nextSweep' = now + sweepInterval
    /\ UNCHANGED <<requests, postCalls, delivered, now, poll, notRelay>>

\* Time passes on the server, not beyond the moment the sweep is due.
Tick ==
    /\ now < MaxTicks * TickLength
    /\ now < nextSweep
    /\ now' = IF now + TickLength < nextSweep THEN now + TickLength ELSE nextSweep
    /\ UNCHANGED <<processedMessages, requests, postCalls, delivered, nextSweep,
                   poll, notRelay>>

\* app.post('/getactivities') up to its await of axios.get; the answer to the
\* poll before is with the client by then.
GetActivitiesReceived(watermark) ==
    /\ poll.pc # "awaiting"
    /\ poll' = [NoPoll EXCEPT !.pc = "awaiting", !.sent = watermark]
    /\ UNCHANGED <<processedMessages, requests, postCalls, delivered, now, nextSweep,
                   notRelay>>

\* axios.get resolved with the activities and the watermark Direct Line chose
GetSucceeded(activities, watermark) ==
    /\ poll.pc = "awaiting"
    /\ poll' = ActivitiesResponse(poll.sent, activities, watermark)
    /\ UNCHANGED <<processedMessages, requests, postCalls, delivered, now, nextSweep,
                   notRelay>>

\* axios.get rejected: the catch branch answers with status 500
GetFailed ==
    /\ poll.pc = "awaiting"
    /\ poll' = ActivitiesError(poll.sent)
    /\ UNCHANGED <<processedMessages, requests, postCalls, delivered, now, nextSweep,
                   notRelay>>

\* ------------------------------------------------------------------------
\* submitData(data, retries) and submitEmail(email, retries)
\* ------------------------------------------------------------------------

\* The call, up to its first await of fetch or, with no iteration, its throw.
submitDataCalled(url, n) ==
    /\ retryPc = "idle"
    /\ retryUrl' = url
    /\ retries' = n
    /\ retryI' = 0
    /\ lastError' = NoError
    /\ IF LoopContinues(0, n)
          THEN /\ retryPc' = "fetching"
               /\ fetchCalls' = fetchCalls + 1
               /\ UNCHANGED thrown
          ELSE /\ retryPc' = "rejected"
               /\ thrown' = NoError
               /\ UNCHANGED fetchCalls
    /\ UNCHANGED <<caught, outcomes, returned, caller, notRetry>>

\* fetch resolved with response.ok: return response
FetchSucceeded ==
    /\ retryPc = "fetching"
    /\ outcomes' = Append(outcomes, "ok")
    /\ returned' = retryI + 1
    /\ retryPc' = "resolved"
    /\ UNCHANGED <<retryUrl, retries, retryI, caught, lastError, fetchCalls, thrown,
                   caller, notRetry>>

\* fetch rejected, or resolved with a status that is not OK: the catch clause
\* up to its await of the 500 ms timer
FetchFailed(kind) ==
    /\ retryPc = "fetching"
    /\ outcomes' = Append(outcomes, kind)
    /\ caught' = [kind |-> kind, attempt |-> retryI + 1]
    /\ retryPc' = "sleeping"
    /\ UNCHANGED <<retryUrl, retries, retryI, lastError, fetchCalls, returned, thrown,
                   caller, notRetry>>

\* The 500 ms timer fired: lastError = error, i++, and the next iteration up to
\* its fetch, or throw lastError.
RetryTimerFired ==
    LET last == KeepError(lastError, caught)
    IN  /\ retryPc = "sleeping"
        /\ lastError' = last
        /\ retryI' = retryI + 1
        /\ IF LoopContinues(retryI + 1, retries)
              THEN /\ retryPc' = "fetching"
                   /\ fetchCalls' = fetchCalls + 1
                   /\ UNCHANGED thrown
              ELSE /\ retryPc' = "rejected"
                   /\ thrown' = last
                   /\ UNCHANGED fetchCalls
        /\ UNCHANGED <<retryUrl, retries, caught, outcomes, returned, caller, notRetry>>

\* the try block of submitButtonLogic / emailSubmitLogic after its await
callerContinues ==
    /\ retryPc = "resolved"
    /\ caller = NoOutcome
    /\ caller' = TryBranch(retryUrl)
    /\ UNCHANGED <<retryPc, retryUrl, retries, retryI, caught, lastError, fetchCalls,
                   outcomes, returned, thrown, notRetry>>

\* the catch branch of submitButtonLogic / emailSubmitLogic
callerCatches ==
    /\ retryPc = "rejected"
    /\ caller = NoOutcome
    /\ caller' = CatchBranch(retryUrl, thrown)
    /\ UNCHANGED <<retryPc, retryUrl, retries, retryI, caught, lastError, fetchCalls,
                   outcomes, returned, thrown, notRetry>>

\* ------------------------------------------------------------------------
\* saveScrollPositions, showPage and its scroll restoration
\* ------------------------------------------------------------------------

\* The user scrolls the window.
userScrolls(y) ==
    /\ y # scrollY
    /\ scrollY' = y
    /\ UNCHANGED <<currentPage, scrollPositions, sessionStorage, chatbotAlreadyOpened,
                   arrivalSignals, restoreVars, viewVars, dialogueVars,
                   notScroll>>

\* What nextButtonLogic, backButtonLogic, moveToFinalPage and the default branch
\* of handlePopState share: saveScrollPositions(currentPage), the new
\* currentPage, showPage(currentPage), saveNavigationState().
pageChanged(pageNumber) ==
    LET sp == SaveScroll(scrollPositions, currentPage, currentPage, scrollY)
        restored == pageNumber # chatbotPage
        target == RestoreTarget(sp, pageNumber)
    IN  /\ currentPage < totalPages
        /\ pageNumber \in {currentPage - 1, currentPage + 1, totalPages} \ {currentPage}
        /\ pageNumber \in Pages
        /\ viewTimers + ViewTimersStarted(pageNumber) <= MaxViewTimers
        /\ view' = ShowPageView(view, pageNumber)
        /\ viewTimers' = viewTimers + ViewTimersStarted(pageNumber)
        /\ currentPage' = pageNumber
        /\ scrollPositions' = sp
        /\ chatbotAlreadyOpened' = ArrivalFlag(chatbotAlreadyOpened, pageNumber)
        /\ arrivalSignals' = arrivalSignals + ArrivalSignal(chatbotAlreadyOpened, pageNumber)
        /\ sessionStorage' =
               SaveNavigationState(
                   StoreArrival(
                       StoreScroll(sessionStorage, scrollPositions, currentPage,
                                   currentPage, scrollY),
                       chatbotAlreadyOpened, pageNumber),
                   pageNumber, historyStates)
        /\ scrollPos' = IF restored THEN target ELSE scrollPos
        /\ scrollFrame1' = IF restored /\ target # Undefined THEN pageNumber ELSE 0
        /\ scrollFrame2' = 0
        /\ IF restored /\ target = Undefined
              THEN scrollY' = 0 /\ fired' = 0
              ELSE scrollY' = scrollY /\ fired' = NoScroll
        /\ UNCHANGED <<scrollTimers, dialogueVars,
                   notScroll>>

\* The callback of scrollFrame1Id: it reads pageElement.offsetHeight, which
\* throws when there is no such element, and requests the second frame.
scrollFrame1Fires ==
    /\ scrollFrame1 # 0
    /\ scrollFrame1' = 0
    /\ scrollFrame2' = IF PageElementExists(scrollFrame1) THEN scrollFrame1 ELSE scrollFrame2
    /\ UNCHANGED <<currentPage, scrollPositions, scrollY, sessionStorage,
                   chatbotAlreadyOpened, arrivalSignals, scrollPos, scrollTimers, fired,
                   viewVars, dialogueVars,
                   notScroll>>

\* The callback of scrollFrame2Id: it starts the 50 ms timer.
scrollFrame2Fires ==
    /\ scrollFrame2 # 0
    /\ Len(scrollTimers) < MaxTimers
    /\ scrollFrame2' = 0
    /\ scrollTimers' = Append(scrollTimers, scrollFrame2)
    /\ UNCHANGED <<currentPage, scrollPositions, scrollY, sessionStorage,
                   chatbotAlreadyOpened, arrivalSignals, scrollPos, scrollFrame1, fired,
                   viewVars, dialogueVars,
                   notScroll>>

\* The callback of the timer: window.scrollTo({ top: scrollPos, ... }), which
\* leaves the window where it is when top is undefined.
scrollTimerFires ==
    /\ scrollTimers # <<>>
    /\ scrollTimers' = Tail(scrollTimers)
    /\ scrollY' = IF scrollPos # Undefined THEN scrollPos ELSE scrollY
    /\ fired' = IF scrollPos # Undefined THEN scrollPos ELSE fired
    /\ UNCHANGED <<currentPage, scrollPositions, sessionStorage, chatbotAlreadyOpened,
                   arrivalSignals, scrollPos, scrollFrame1, scrollFrame2, viewVars,
                   dialogueVars,
                   notScroll>>

\* The callback of the 100 ms timer of applyChatbotViewState:
\* mobileChatbotActivation() scrolls to the bottom of the document, then the
\* classes chatbot-visible-locked and body.chatbot-visible are added.
viewTimerFires ==
    /\ viewTimers > 0
    /\ viewTimers' = viewTimers - 1
    /\ view' = [view EXCEPT !.locked = TRUE]
    /\ scrollY' = MaxScrollY
    /\ UNCHANGED <<currentPage, scrollPositions, sessionStorage, chatbotAlreadyOpened,
                   arrivalSignals, restoreVars, dialogueVars,
                   notScroll>>

\* The user reloads the page: the beforeunload listener saves the offset, the
\* pending callbacks go with the document, restoreState reads the offsets
\* back and initializePage calls showPage(currentPage).
pageReloaded ==
    LET unloaded == StoreScroll(sessionStorage, scrollPositions, currentPage,
                                currentPage, scrollY)
        opened == unloaded.chatbotAlreadyOpened = "true"
        cp == RestoredPage(unloaded)
        sp == RestoredScroll(unloaded)
        restored == cp # chatbotPage
        target == RestoreTarget(sp, cp)
    IN  /\ currentPage' = cp
        /\ scrollPositions' = sp
        /\ chatbotAlreadyOpened' = ArrivalFlag(opened, cp)
        /\ arrivalSignals' = arrivalSignals + ArrivalSignal(opened, cp)
        /\ sessionStorage' = StoreArrival(SaveNavigationState(unloaded, cp, historyStates),
                                          opened, cp)
        /\ scrollPos' = IF restored THEN target ELSE Undefined
        /\ scrollFrame1' = IF restored /\ target # Undefined THEN cp ELSE 0
        /\ scrollFrame2' = 0
        /\ scrollTimers' = <<>>
        /\ scrollY' = 0
        /\ fired' = IF restored /\ target = Undefined THEN 0 ELSE NoScroll
        /\ view' = ShowPageView(MarkupView, cp)
        /\ viewTimers' = ViewTimersStarted(cp)
        /\ dialogueFinished' = RestoredDialogue(unloaded)
        /\ bottomView' = SetFinishedDialogueState(RestoredDialogue(unloaded))
        /\ UNCHANGED notScroll

\* handleFinishedDialogue(), the listener of 'dialogueFinishedEvent'
handleFinishedDialogue ==
    /\ dialogueFinished' = TRUE
    /\ sessionStorage' = [sessionStorage EXCEPT !.dialogueFinished = BoolToString(TRUE)]
    /\ bottomView' = SetFinishedDialogueState(TRUE)
    /\ UNCHANGED <<currentPage, scrollPositions, scrollY, chatbotAlreadyOpened,
                   arrivalSignals, restoreVars, viewVars, notScroll>>

Next ==
    \/ nextButtonLogic
    \/ backButtonLogic
    \/ consentCheckboxLogic
    \/ submitButtonLogic
    \/ moveToFinalPage
    \/ submitFailed
    \/ UserNavigates
    \/ TraversalDropped
    \/ TraversalUnheard
    \/ PopStateSuppressed
    \/ PopStateConsentBlocked
    \/ PopStateOnFinalPage
    \/ PopStateDefault
    \/ Reload

Spec == Init /\ [][Next]_vars

RelayNext ==
    \/ \E r \in Requests, c \in ConversationIds, m \in ClientSideMsgIds :
           SendMessageReceived(r, c, m)
    \/ \E r \in Requests : PostSucceeded(r)
    \/ \E r \in Requests : PostFailed(r)
    \/ Sweep
    \/ Tick

\* The relay server alone.
RelaySpec == Init /\ [][RelayNext]_vars

PollNext ==
    \/ \E r \in Requests, c \in ConversationIds, m \in ClientSideMsgIds :
           SendMessageReceived(r, c, m)
    \/ \E r \in Requests : PostSucceeded(r)
    \/ \E r \in Requests : PostFailed(r)
    \/ \E watermark \in Watermarks \cup {NoWatermark} : GetActivitiesReceived(watermark)
    \/ \E activities \in Batches, watermark \in Watermarks :
           GetSucceeded(activities, watermark)
    \/ GetFailed

\* The relay server between two sweeps: messages sent and activities polled.
PollSpec == Init /\ [][PollNext]_vars

ScrollNext ==
    \/ \E y \in 0..MaxScrollY : userScrolls(y)
    \/ \E pageNumber \in Pages : pageChanged(pageNumber)
    \/ scrollFrame1Fires
    \/ scrollFrame2Fires
    \/ scrollTimerFires
    \/ viewTimerFires
    \/ handleFinishedDialogue
    \/ pageReloaded

\* The scroll offsets of the pages and their restoration.
ScrollSpec == Init /\ [][ScrollNext]_vars

RetryNext ==
    \/ \E url \in {"/submit", "/submit-email"}, n \in 0..MaxRetries :
           submitDataCalled(url, n)
    \/ FetchSucceeded
    \/ \E kind \in FailureKinds : FetchFailed(kind)
    \/ RetryTimerFired
    \/ callerContinues
    \/ callerCatches

\* One call of submitData or submitEmail.
RetrySpec == Init /\ [][RetryNext]_vars

\* The same, where every fetch settles and every timer fires.
RetryLiveSpec ==
    /\ RetrySpec
    /\ WF_vars(FetchSucceeded \/ \E kind \in FailureKinds : FetchFailed(kind))
    /\ WF_vars(RetryTimerFired)

LoadNext ==
    \/ \E key \in StoredKeys : \E item \in StoredValues(key) : storageEdited(key, item)
    \/ startup

\* Loads of the page with whatever sessionStorage holds.
LoadSpec == Init /\ [][LoadNext]_vars

\* ------------------------------------------------------------------------
\* Properties
\* ------------------------------------------------------------------------

\* A queued traversal is applied by the browser (with or without an event).
Delivery ==
    \/ TraversalDropped
    \/ TraversalUnheard
    \/ PopStateSuppressed
    \/ PopStateConsentBlocked
    \/ PopStateOnFinalPage
    \/ PopStateDefault

\* handlePopState runs for the oldest queued traversal.
Handled ==
    \/ PopStateSuppressed
    \/ PopStateConsentBlocked
    \/ PopStateOnFinalPage
    \/ PopStateDefault

\* C1: in every reachable state currentPage is an integer between 1 and
\* totalPages, whatever buttons, final jumps, popstate deliveries and reloads
\* came before.
C1_PageInRange == currentPage \in 1..totalPages

\* The final page, reached and kept through a reload and a browser-back press.
C1_Witness ==
    /\ currentPage = totalPages
    /\ reloads > 0
    /\ nativeCursor < Len(nativeEntries)

\* C2: historyStates never holds two entries with the same page.
C2_NoDuplicatePages ==
    \A i, j \in DOMAIN historyStates :
        historyStates[i] = historyStates[j] => i = j

\* Every page before the final one was visited, the user went back to page 1
\* and reloaded there: initializeHistory found page 1 in the restored stack.
C2_Witness ==
    /\ Len(historyStates) = totalPages - 1
    /\ reloads > 0
    /\ currentPage = 1

\* C3: after a sequence of nextButtonLogic and backButtonLogic calls that stays
\* within [1, totalPages], once every history notification they triggered is
\* delivered, currentPage is the initial page plus the advances minus the
\* retreats, however the deliveries interleave with the calls.
C3_PureFold == (foldPage # 0 /\ traversals = <<>>) => currentPage = foldPage

\* C4: nextButtonLogic on the final page and backButtonLogic on page 1 change
\* nothing: not currentPage, historyStates, scrollPositions, the persisted
\* snapshot, the native history, nor bypassPopState.
C4_BoundaryCallsAreNoOps ==
    [][((nextButtonLogic /\ currentPage = totalPages)
            \/ (backButtonLogic /\ currentPage = 1))
         => UNCHANGED <<currentPage, historyStates, scrollPositions, sessionStorage,
                        nativeEntries, nativeCursor, traversals, bypassPopState>>]_vars

\* C5: whenever no history notification is pending and currentPage is not the
\* final page, the native history entry at the cursor carries currentPage.
C5_CursorCarriesCurrentPage ==
    (traversals = <<>> /\ currentPage < totalPages)
        => nativeEntries[nativeCursor] = currentPage

\* C6: every popstate event caused by the script's own history.back() or
\* history.forward() is swallowed by branch (d) of handlePopState, leaving
\* currentPage alone, also when two such traversals are in flight at once.
C6_OwnEventsAreSwallowed ==
    [][(PopStateFires /\ Head(traversals).self /\ Handled)
         => (PopStateSuppressed /\ currentPage' = currentPage)]_vars

\* C7: bypassPopState is true only while a traversal the script requested
\* itself is still to be delivered, also when history.forward() or
\* history.back() had no entry to move to.
C7_FlagOnlyWhileOwnTraversalPending ==
    bypassPopState => \E i \in DOMAIN traversals : traversals[i].self

\* C8: once currentPage is totalPages it stays totalPages: no button, no popstate
\* event (suppressed or not) and no reload changes it.
C8_FinalPageIsKept == [][currentPage = totalPages => currentPage' = totalPages]_vars

\* On the final page, a browser-back press has been handled by branch (c).
C8_Witness ==
    /\ currentPage = totalPages
    /\ ~popstateAttached
    /\ nativeCursor < Len(nativeEntries)

\* C9: on the final page a browser-back press makes handlePopState remove itself
\* as listener and call history.back(); with the listener removed, every later
\* browser back/forward press leaves currentPage, historyStates,
\* scrollPositions and the persisted snapshot unchanged.
C9_FinalPageDetachesHandler ==
    /\ [][(currentPage = totalPages /\ PopStateFires /\ ~Head(traversals).self
              /\ Head(traversals).delta < 0 /\ Handled)
            => (~popstateAttached'
                  /\ traversals' = Append(Tail(traversals), SelfTraversal(-1)))]_vars
    /\ [][(currentPage = totalPages /\ ~popstateAttached /\ Delivery)
            => UNCHANGED <<currentPage, historyStates, scrollPositions,
                           sessionStorage>>]_vars

\* C10: while currentPage is 1 and the consent checkbox is not checked, no
\* forward navigation of the browser, to page 2 or to a later visited entry,
\* moves currentPage past 1.
C10_NoForwardWithoutConsent ==
    [][(currentPage = 1 /\ ~consentChecked /\ PopStateFires
          /\ ~Head(traversals).self /\ Head(traversals).delta > 0 /\ Handled)
         => currentPage' = 1]_vars

C12_ArrivalSignalledOnce ==
    /\ [](arrivalSignals <= 1)
    /\ [](currentPage = chatbotPage => arrivalSignals = 1)
    /\ [][arrivalSignals' # arrivalSignals => currentPage' = chatbotPage]_vars

\* The chatbot page shown again by a reload, after the user left it and came
\* back with the browser's back button.
C12_Witness ==
    /\ currentPage = chatbotPage
    /\ reloads > 0
    /\ nativeCursor < Len(nativeEntries)
    /\ arrivalSignals = 1

\* Request r1 got the id of the message it posted under key, and no other
\* request received so far carries that key.
OnlyCompleted(r1, key) ==
    /\ requests[r1].pc = "done"
    /\ requests[r1].status = "ok"
    /\ requests[r1].key = key
    /\ \A r3 \in Requests \ {r1} : requests[r3].key # key

C14_AtMostOnePostPerKey ==
    now <= oneHour => \A k \in MessageKeys : delivered[k] <= 1

\* C15: a /sendmessage request whose backend post fails answers with the
\* failure and adds no entry to processedMessages, so that a later request with
\* the same key posts to the backend again; a key has an entry only if a post
\* for that key succeeded.
C15_FailedPostLeavesNoEntry ==
    /\ [](\A k \in MessageKeys : processedMessages[k].has => delivered[k] >= 1)
    /\ [][\A r \in Requests :
             PostFailed(r) => (/\ requests'[r].status = "error"
                               /\ processedMessages' = processedMessages)]_vars
    /\ [][\A r \in Requests, c \in ConversationIds, m \in ClientSideMsgIds :
             (SendMessageReceived(r, c, m) /\ delivered[MessageKey(c, m)] = 0)
               => (/\ requests'[r].pc = "awaiting"
                   /\ postCalls'[MessageKey(c, m)] = postCalls[MessageKey(c, m)] + 1)]_vars

\* The first request failed, the second, received after the failure, posted
\* the message of the same key again.
C15_Witness ==
    \E k \in MessageKeys :
        /\ requests[1].key = k /\ requests[1].status = "error"
        /\ requests[2].key = k /\ requests[2].status = "ok"
        /\ postCalls[k] = 2
        /\ delivered[k] = 1
        /\ processedMessages[k].has

\* C16: submitData/submitEmail with retries = n performs at most n attempts,
\* performs no attempt after the first successful one, returns that first
\* successful response, and always terminates (resolves or rejects) provided
\* each attempt completes.
C16_BoundedRetries ==
    /\ [](retryPc # "idle" => fetchCalls <= retries)
    /\ [](\A j \in 1..Len(outcomes) :
             outcomes[j] = "ok" => (j = Len(outcomes) /\ fetchCalls = j))
    /\ [](retryPc = "resolved" => (returned = Len(outcomes) /\ outcomes[returned] = "ok"))
    /\ []((\E j \in 1..Len(outcomes) : outcomes[j] = "ok") => retryPc = "resolved")
    /\ (retryPc \in {"fetching", "sleeping"}) ~> (retryPc \in {"resolved", "rejected"})

\* A call with the largest retries resolved with the response of its second
\* attempt, and made no further attempt.
C16_Witness ==
    /\ retryPc = "resolved"
    /\ retries = MaxRetries
    /\ outcomes = <<"network", "ok">>
    /\ returned = 2
    /\ fetchCalls = 2

\* C17: submitData with retries = n >= 1 rejects if and only if all n attempts
\* failed (network error or status not OK), and the error it raises is the
\* failure of the n-th attempt, not of an earlier one.
C17_RejectsWithLastFailure ==
    (retries >= 1 /\ retryPc \in {"resolved", "rejected"})
        => /\ retryPc = "rejected"
                <=> (/\ Len(outcomes) = retries
                     /\ \A j \in 1..Len(outcomes) : outcomes[j] \in FailureKinds)
           /\ retryPc = "rejected"
                => thrown = [kind |-> outcomes[retries], attempt |-> retries]

\* A call rejected after its last attempt failed in another way than its first.
C17_Witness ==
    /\ retryPc = "rejected"
    /\ retries = MaxRetries
    /\ Len(outcomes) = retries
    /\ outcomes[1] = "network"
    /\ outcomes[retries] = "status"
    /\ thrown.attempt = retries

\* C18: when a submission fails on all its attempts, submitButtonLogic shows
\* the error notification and changes no navigation or persisted state:
\* neither the click nor the catch branch touches currentPage, historyStates or
\* a key of sessionStorage (no jump to the final page, no clearState).
C18_FailedSubmitChangesNothing ==
    /\ [][submitFailed
            => (/\ submitErrorShown'
                /\ UNCHANGED <<currentPage, historyStates, scrollPositions,
                               sessionStorage, nativeEntries, nativeCursor,
                               traversals>>)]_vars
    /\ [][submitButtonLogic
            => UNCHANGED <<currentPage, historyStates, scrollPositions,
                           sessionStorage, nativeEntries, nativeCursor,
                           traversals>>]_vars

\* On the last page of the questionnaire a submission has failed: the
\* notification is shown and the participant's data are still stored.
C18_Witness ==
    /\ submitErrorShown
    /\ submitsInFlight = 0
    /\ currentPage = totalPages - 1
    /\ sessionStorage.participantId
    /\ sessionStorage.formData.has
    /\ sessionStorage.currentPage = Item(NumberToString(totalPages - 1))

\* No callback of a scroll restoration is pending.
Quiescent == scrollFrame1 = 0 /\ scrollFrame2 = 0 /\ scrollTimers = <<>>

\* C19: for every page s but the chatbot page, once the restoration queued by
\* showPage(s) has run, the scroll that fired last targets the offset
\* saveScrollPositions saved for s, and the top of the page if no offset was
\* ever saved for s.
C19_RestoresSavedOffset ==
    (Quiescent /\ currentPage # chatbotPage)
        => fired = (IF ScrollPositionOf(scrollPositions, currentPage) = Undefined
                       THEN 0
                       ELSE ScrollPositionOf(scrollPositions, currentPage))

Persisted ==
    /\ sessionStorage.currentPage = Item(NumberToString(currentPage))
    /\ sessionStorage.historyStates = Item(HistoryJson(historyStates))

\* sessionStorage of a tab that never ran the script
EmptyStorage ==
    [currentPage |-> [has |-> FALSE, val |-> <<>>],
     historyStates |-> [has |-> FALSE, val |-> <<>>],
     scrollPositions |-> NoScrollItem,
     formData |-> NoFormItem,
     chatbotAlreadyOpened |-> BoolToString(FALSE),
     dialogueFinished |-> NoValue,
     participantId |-> FALSE]

\* The scroll offsets a reload keeps: the one of every page but the page being
\* left, whose offset the beforeunload listener saves anew.
KeptOffset(p) ==
    IF p = currentPage /\ currentPage # chatbotPage THEN scrollY ELSE scrollPositions[p]

Unusable(key) ==
    \/ ~sessionStorage[key].has
    \/ key = "currentPage" /\ ParseInt(sessionStorage[key].val) = NaN
    \/ key # "currentPage" /\ JsonThrows(sessionStorage[key].val)

\* C22: when a persisted value read at startup is missing or invalid,
\* initialization does not fail and the state falls back to its default:
\* currentPage 1, historyStates holding only the page initializeHistory
\* appends, no scroll offset.
C22_InvalidSnapshotFallsBack ==
    [][startup =>
          /\ (\E key \in StoredKeys : Unusable(key)) => ~initFailed'
          /\ Unusable("currentPage") => currentPage' = 1
          /\ Unusable("historyStates") => historyStates' = <<currentPage'>>
          /\ Unusable("scrollPositions") =>
                 scrollPositions' = [p \in Pages |-> Undefined]]_vars


C24_SweepRemovesExpiredOnly ==
    /\ [][Sweep =>
            \A k \in MessageKeys :
                IF processedMessages[k].has
                       /\ now - processedMessages[k].timestamp > oneHour
                    THEN ~processedMessages'[k].has
                    ELSE processedMessages'[k] = processedMessages[k]]_vars
    /\ [][nextSweep' # nextSweep =>
            /\ now = nextSweep
            /\ nextSweep' = nextSweep + sweepInterval
            /\ UNCHANGED <<requests, postCalls, delivered>>]_vars

\* The second sweep has run: it removed the entry of a message posted two
\* hours before and kept the entry of one posted exactly one hour before.
C24_Witness ==
    /\ nextSweep = 3 * sweepInterval
    /\ \E r1, r2 \in Requests :
           /\ requests[r1].status = "ok"
           /\ ~processedMessages[requests[r1].key].has
           /\ requests[r2].status = "ok"
           /\ processedMessages[requests[r2].key].has
           /\ now - processedMessages[requests[r2].key].timestamp = oneHour


\* C25: a poll whose request to Direct Line fails is answered with an error
\* that carries no watermark, a poll that succeeds is answered with the
\* activities and the watermark Direct Line returned, and neither changes
\* processedMessages or any other state of the relay.
C25_PollPassesWatermarkThrough ==
    /\ [](poll.pc = "done" =>
            IF poll.status = 200
                THEN poll.watermark = poll.backend /\ poll.watermark \in Watermarks
                ELSE poll.status = 500 /\ poll.watermark = NoWatermark
                     /\ poll.activities = 0)
    /\ [][poll' # poll =>
            UNCHANGED <<processedMessages, requests, postCalls, delivered, now,
                        nextSweep>>]_vars

\* A poll that sent watermark 1 was answered with one activity and watermark 1
\* while processedMessages holds an entry.
C25_Witness ==
    /\ poll.pc = "done"
    /\ poll.status = 200
    /\ poll.sent = 1
    /\ poll.activities = 1
    /\ poll.watermark = 1
    /\ \E k \in MessageKeys : processedMessages[k].has


\* C26: in every reachable state scrollPositions has no entry for chatbotPage,
\* in memory and in sessionStorage: no button, no history notification and no
\* beforeunload save writes a scroll offset for the chatbot page.
C26_NoOffsetForChatbotPage ==
    /\ scrollPositions[chatbotPage] = Undefined
    /\ chatbotPage \notin DOMAIN sessionStorage.scrollPositions.val

\* The chatbot page was left in both directions and the page was reloaded on
\* it, while the pages around it have their offsets saved.
C26_Witness ==
    /\ reloads = 1
    /\ currentPage = chatbotPage
    /\ scrollPositions[chatbotPage - 1] # Undefined
    /\ scrollPositions[chatbotPage + 1] # Undefined
    /\ sessionStorage.scrollPositions.has


\* A call of nextButtonLogic or moveToFinalPage.
Advance == nextButtonLogic \/ moveToFinalPage

\* The traversals a handler requested itself in this step, oldest first.
Issued == SubSeq(traversals', Len(traversals) + 1, Len(traversals'))

\* C27: a native history entry is pushed only when an advance or the final
\* jump lands on a page not yet in historyStates, and then historyStates and
\* the native history each grow by exactly one entry carrying that page;
\* landing on a page already in historyStates pushes nothing and issues exactly
\* one history.forward() with bypassPopState set; a retreat issues exactly one
\* history.back() with bypassPopState set.
C27_PushOnlyOnFirstVisit ==
    /\ [][Len(nativeEntries') # Len(nativeEntries) \/ historyStates' # historyStates
            => (Advance /\ ~InHistory(historyStates, currentPage')) \/ Reload]_vars
    /\ [][(Advance /\ ~InHistory(historyStates, currentPage')) =>
            /\ historyStates' = Append(historyStates, currentPage')
            /\ Len(nativeEntries') = Len(nativeEntries) + 1
            /\ nativeEntries'[Len(nativeEntries')] = currentPage'
            /\ nativeCursor' = Len(nativeEntries')
            /\ Issued = <<>>]_vars
    /\ [][(Advance /\ InHistory(historyStates, currentPage')) =>
            /\ UNCHANGED <<historyStates, nativeEntries, nativeCursor>>
            /\ Issued = <<SelfTraversal(1)>>
            /\ bypassPopState']_vars
    /\ [][(backButtonLogic /\ currentPage' < currentPage) =>
            /\ UNCHANGED <<historyStates, nativeEntries, nativeCursor>>
            /\ Issued = <<SelfTraversal(-1)>>
            /\ bypassPopState']_vars


\* C28: initialization overwrites the native history entry at the cursor with
\* currentPage without pushing and appends currentPage to historyStates only
\* if it is absent; a reload changes neither the length of the native history
\* nor the length of historyStates.
C28_ReloadKeepsLengths ==
    [][Reload =>
          /\ nativeCursor' = nativeCursor
          /\ Len(nativeEntries') = Len(nativeEntries)
          /\ nativeEntries'[nativeCursor] = currentPage'
          /\ \A i \in DOMAIN nativeEntries \ {nativeCursor} :
                 nativeEntries'[i] = nativeEntries[i]
          /\ historyStates' \in {historyStates, Append(historyStates, currentPage')}
          /\ Len(historyStates') = Len(historyStates)]_vars


Removed(key) ==
    IF key = "participantId"
        THEN sessionStorage.participantId /\ ~sessionStorage'.participantId
        ELSE sessionStorage[key].has /\ ~sessionStorage'[key].has

\* C30: persisted keys are removed only by clearState, which runs only after
\* submitData succeeded and after moveToFinalPage: a step that removes a key
\* is the one that follows a successful submission and ends on the final
\* page, and it keeps the navigation snapshot; no navigation, reload or failed
\* submission removes a key.
C30_OnlyClearStateRemovesKeys ==
    /\ [][(\E key \in StoredKeys \cup {"formData", "participantId"} : Removed(key)) =>
            /\ moveToFinalPage
            /\ submitted'
            /\ currentPage' = totalPages
            /\ \A key \in StoredKeys : ~Removed(key)]_vars
    /\ [][(submitFailed \/ Reload \/ nextButtonLogic \/ backButtonLogic \/ PopStateDefault) =>
            \A key \in StoredKeys \cup {"formData", "participantId"} : ~Removed(key)]_vars

\* After a successful submission from page 3: the form data and the
\* participant id are gone, the navigation snapshot is kept.
C30_Witness ==
    /\ submitted
    /\ currentPage = totalPages
    /\ historyStates = <<1, 2, 3, 4>>
    /\ ~sessionStorage.participantId
    /\ ~sessionStorage.formData.has
    /\ sessionStorage.currentPage = Item(NumberToString(totalPages))
    /\ sessionStorage.scrollPositions.has


\* C31: whenever no 100 ms timer of applyChatbotViewState is pending, the
\* chatbot interface view is shown if currentPage is chatbotPage and the
\* survey view otherwise, also after a jump to the final page from the chatbot
\* page and after the chatbot page was entered and left within the 100 ms.
C31_ViewFollowsCurrentPage ==
    viewTimers = 0 =>
        view = IF currentPage = chatbotPage THEN ChatbotView ELSE SurveyView


\* C32: after handlePopState has handled a traversal the user requested in
\* its default branch, currentPage is the page of the entry the traversal led
\* to, however many entries away it is, and also when that page is
\* currentPage.
C32_PopStateReachesEntryPage ==
    [][(PopStateDefault /\ ~Head(traversals).self) => currentPage' = EventPage]_vars


\* C33: once a dialogueFinishedEvent has set dialogueFinished it never
\* returns to false, page reloads included, and while it is true and
\* textareaReplacement is on, the finishedDialogueBtn is shown in place of the
\* message input.
C33_DialogueStaysFinished ==
    /\ [][dialogueFinished => dialogueFinished']_vars
    /\ []((dialogueFinished /\ textareaReplacement) => bottomView = "finished")

\* The dialogue has finished, the chatbot page was left for the page after it
\* and the stored flag is there for the next load.
C33_Witness ==
    /\ dialogueFinished
    /\ bottomView = "finished"
    /\ sessionStorage.dialogueFinished = "true"
    /\ currentPage = chatbotPage + 1
    /\ viewTimers = 0


\* No other request received so far carries the pair (conversationId,
\* clientSideMsgId).
FirstOfPair(r, conversationId, clientSideMsgId) ==
    \A r3 \in Requests \ {r} :
        ~(/\ requests[r3].conversationId = conversationId
          /\ requests[r3].clientSideMsgId = clientSideMsgId)

\* C34: a /sendmessage request whose (conversationId, clientSideMsgId) differs
\* from the pair of every other request is never answered as a duplicate: it
\* is posted to the backend, ids that contain the separator '::' included.
C34_DistinctPairsNotDeduplicated ==
    [][\A r \in Requests, c \in ConversationIds, m \in ClientSideMsgIds :
          (SendMessageReceived(r, c, m) /\ FirstOfPair(r, c, m))
            => (/\ requests'[r].pc = "awaiting"
                /\ requests'[r].status # "duplicate"
                /\ postCalls'[MessageKey(c, m)] = postCalls[MessageKey(c, m)] + 1)]_vars


\* historyStates before the step is a prefix of historyStates after it.
KeepsHistoryPrefix ==
    /\ Len(historyStates') >= Len(historyStates)
    /\ SubSeq(historyStates', 1, Len(historyStates)) = historyStates

\* C35: historyStates is append-only and in first-visit order: every step
\* leaves the previous historyStates as a prefix of the new one, and every page
\* that is current is among the pages historyStates holds.
C35_HistoryStatesAppendOnly ==
    /\ [][KeepsHistoryPrefix]_vars
    /\ [](InHistory(historyStates, currentPage))


\* The data was submitted and the final page is the current one.
Terminal == submitted /\ currentPage = totalPages

CaughtByCaller ==
    /\ caller.shown \in {"submit-error-message", "submit-emmail-error-message"}
    /\ ~caller.finalStep

\* C38: submitData/submitEmail called with retries <= 0 performs no attempt and
\* rejects, and the caller's catch branch handles the value raised as it
\* handles the failure of a call whose attempts all failed: the error
\* notification is shown and the page does not move to the final step.
C38_NoRetriesRejects ==
    /\ \A n \in (0 - MaxRetries)..0 : ~LoopContinues(0, n)
    /\ (retryPc # "idle" /\ retries <= 0)
         => (/\ retryPc = "rejected"
             /\ fetchCalls = 0
             /\ outcomes = <<>>)
    /\ (retryPc = "rejected" /\ caller # NoOutcome) => CaughtByCaller
    /\ caller.finalStep => retryPc = "resolved"

\* A call with retries = 0 was rejected without an attempt and the caller's
\* catch branch has shown the error notification.
C38_Witness ==
    /\ retries = 0
    /\ retryPc = "rejected"
    /\ fetchCalls = 0
    /\ thrown = NoError
    /\ CaughtByCaller

=============================================================================
